---- MODULE Spec2Model ----
(***************************************************************************)
(* Model of the modbius-core request codec: the write-multiple-registers   *)
(* request (write/multiple_registers.rs), the register view                *)
(* (registerslice.rs), the big-endian primitives (util.rs) and the checked *)
(* parsers of the fixed-size requests (requests/read.rs,                   *)
(* requests/write/single.rs).                                              *)
(*                                                                         *)
(* The helper functions (one-byte readers, slave ids, register views, the  *)
(* primitives, and the helpers of the earlier revision under util/ and     *)
(* request/) are called under UtilSpec, the codec under Spec.              *)
(*                                                                         *)
(* Every function of the library is pure.  The state machine is one call   *)
(* sequence of a caller: from "idle" it calls a constructor or a parser on *)
(* an input it picks, it may then encode the request it holds into an      *)
(* output buffer, and it may parse the encoded bytes again.                *)
(*                                                                         *)
(* Byte slices are sequences of 0..255 (TLA+ indices are 1-based, the      *)
(* Rust index i is the TLA+ index i + 1).                                  *)
(***************************************************************************)
EXTENDS Integers, Sequences, FiniteSets, TLC

VARIABLES pc, ty, data, addrArg, regsArg, req, origin, out0, out, res,
          arg, chainIn, chainOut

vars == <<pc, ty, data, addrArg, regsArg, req, origin, out0, out, res,
          arg, chainIn, chainOut>>

----------------------------------------------------------------------------
(* Bounds of the input space                                               *)

\* payload fill patterns are numbered 0..MaxSeed
MaxSeed == 1
\* at most MaxExtra bytes follow a frame / an output buffer is at most
\* MaxExtra bytes longer than the encoding needs
MaxExtra == 2
\* at most MaxChain encoded read requests are concatenated into one input
MaxChain == 2

----------------------------------------------------------------------------
(* Program constants                                                        *)

MIN_INPUT_SIZE == 7
HEADER_SIZE == 6
MaxRegisters == 123
FixedInputSize == 4
FixedOutputSize == 5

U8 == 256
U16 == 65536
\* pointer width of the target: the narrowest one Rust supports; usize
\* arithmetic is the same modulo 2^w on the wider ones
UsizeBits == 16
USIZE == 2 ^ UsizeBits

----------------------------------------------------------------------------
(* Results, options and errors (error.rs)                                  *)

None == [some |-> FALSE]
Some(v) == [some |-> TRUE, value |-> v]

\* Ok(()) of an encoder
OkUnit == [kind |-> "Ok"]
\* Ok(value) of a constructor or of a parser that returns the request only
Ok(v) == [kind |-> "Ok", value |-> v]
\* Ok((value, tail)) of a parser that returns the request and the tail
OkTail(v, t) == [kind |-> "Ok", value |-> v, tail |-> t]
\* the value of a function that cannot fail
Value(v) == [kind |-> "Value", value |-> v]

UnexpectedEOF(e, g) == [kind |-> "UnexpectedEOF", expected |-> e, got |-> g]
InsufficientBuffer(e, g) == [kind |-> "InsufficientBuffer", expected |-> e, got |-> g]
Invalid == [kind |-> "Invalid"]
InvalidValue == [kind |-> "InvalidValue"]
TooLarge == [kind |-> "TooLarge"]
Ambivalent == [kind |-> "Ambivalent"]
Overflow == [kind |-> "Overflow"]

----------------------------------------------------------------------------
(* Slices and big-endian primitives (core, util.rs)                        *)

\* data[lo..hi] of Rust, for 0 <= lo <= hi <= len
Slice(s, lo, hi) == SubSeq(s, lo + 1, hi)

\* data[lo..]
SliceFrom(s, lo) == SubSeq(s, lo + 1, Len(s))

\* <[u8]>::get(lo..hi): None when the range does not lie inside the slice
slice_get(s, lo, hi) ==
  IF lo <= hi /\ hi <= Len(s) THEN Some(Slice(s, lo, hi)) ELSE None

from_be_bytes(hi, lo) == hi * U8 + lo

to_be_bytes(w) == <<w \div U8, w % U8>>

\* overflowing_add that reports the overflow one step late
overflowing_add_late(a, b) == <<(a + b) % U16, a + b > U16>>

\* u16::overflowing_add: the wrapped sum and the overflow flag
overflowing_add(a, b) == <<(a + b) % U16, a + b >= U16>>

\* util::read_u16_unchecked: the word of bytes 0 and 1, and data[2..]
read_u16_unchecked(d) == <<from_be_bytes(d[1], d[2]), SliceFrom(d, 2)>>

\* util::read_addr_quantity_unchecked
read_addr_quantity_unchecked(d) ==
  LET r1 == read_u16_unchecked(d)
      r2 == read_u16_unchecked(r1[2])
  IN  <<r1[1], r2[1], r2[2]>>

\* util::write_addr_quantity_unchecked: the buffer after the four stores
write_addr_quantity_unchecked(addr, quantity, o) ==
  LET addr_bytes == to_be_bytes(addr)
      quantity_bytes == to_be_bytes(quantity)
  IN  [i \in 1..Len(o) |->
         IF i = 1 THEN addr_bytes[1]
         ELSE IF i = 2 THEN addr_bytes[2]
         ELSE IF i = 3 THEN quantity_bytes[1]
         ELSE IF i = 4 THEN quantity_bytes[2]
         ELSE o[i]]

\* <[u8]>::get(i): None when i is not an index of the slice
slice_get_index(s, i) == IF i < Len(s) THEN Some(s[i + 1]) ELSE None

\* util::read_u16
read_u16(d) ==
  LET dhi == slice_get_index(d, 0)
      dlo == slice_get_index(d, 1)
  IN  IF dhi.some /\ dlo.some
        THEN OkTail(from_be_bytes(dhi.value, dlo.value), SliceFrom(d, 2))
        ELSE UnexpectedEOF(2, Len(d))

\* read_addr_quantity as two calls of read_u16 whose errors are passed on
read_addr_quantity_by_read_u16(d) ==
  LET r1 == read_u16(d)
  IN  IF r1.kind # "Ok" THEN r1
      ELSE LET r2 == read_u16(r1.tail)
           IN  IF r2.kind # "Ok" THEN r2
               ELSE OkTail(<<r1.value, r2.value>>, r2.tail)

\* util::read_addr_quantity: Ok((addr, quantity, tail))
read_addr_quantity(d) ==
  IF Len(d) < 4
    THEN UnexpectedEOF(4, Len(d))
    ELSE LET r == read_addr_quantity_unchecked(d)
         IN  OkTail(<<r[1], r[2]>>, r[3])

\* util::write_addr_quantity: the buffer afterwards and the result
write_addr_quantity(addr, quantity, o) ==
  IF Len(o) < 4
    THEN [out |-> o, result |-> InsufficientBuffer(4, Len(o))]
    ELSE [out |-> write_addr_quantity_unchecked(addr, quantity, o),
          result |-> OkUnit]

----------------------------------------------------------------------------
(* Register view (registerslice.rs)                                        *)

\* RegisterSlice::new without the parity check
RegisterSlice_new_any(bytes) == Ok([bytes |-> bytes])

RegisterSlice_new(bytes) ==
  IF Len(bytes) % 2 = 0 THEN Ok([bytes |-> bytes]) ELSE Invalid

RegisterSlice_len(r) == Len(r.bytes) \div 2

RegisterSlice_bytes_len(r) == Len(r.bytes)

RegisterSlice_bytes(r) == r.bytes

\* usize addition and multiplication: the wrapped value and whether the
\* exact result left the range
usize_add(a, b) == [value |-> (a + b) % USIZE, overflow |-> a + b >= USIZE]
usize_mul(a, b) == [value |-> (a * b) % USIZE, overflow |-> a * b >= USIZE]

\* the process stops with a panic
Panic == [kind |-> "Panic"]

\* an unchecked access outside the slice was executed; what the caller
\* observes afterwards is observed
OutOfBounds(observed) == [kind |-> "OutOfBounds", observed |-> observed]

\* get_unchecked: the big-endian word of bytes 2*idx and 2*idx + 1
RegisterSlice_get_unchecked(r, idx) ==
  LET bidx == (idx * 2) % USIZE
      bytes == Slice(r.bytes, bidx, bidx + 2)
  IN  from_be_bytes(bytes[1], bytes[2])

\* the bytes get_unchecked(idx) reads lie inside the view
RegisterSlice_get_unchecked_in_bounds(r, idx) ==
  ((idx * 2) % USIZE) + 1 < Len(r.bytes)

\* RegisterSlice::get: (idx + 1) * 2 is usize arithmetic, which panics on
\* overflow in a build with overflow checks and wraps otherwise; observed is
\* what an access outside the view yields
RegisterSlice_get(r, idx, overflow_checks, observed) ==
  LET next == usize_add(idx, 1)
      need == usize_mul(next.value, 2)
  IN  IF overflow_checks /\ (next.overflow \/ need.overflow) THEN Panic
      ELSE IF ~(Len(r.bytes) >= need.value) THEN Value(None)
      ELSE IF RegisterSlice_get_unchecked_in_bounds(r, idx)
        THEN Value(Some(RegisterSlice_get_unchecked(r, idx)))
      ELSE OutOfBounds(observed)

----------------------------------------------------------------------------
(* Function codes of the newtype classifier (functions.rs)                 *)

\* the variants of PublicModbusFunction and their discriminants
functions_PublicModbusFunction ==
  [Invalid |-> 0, ReadCoils |-> 1, ReadDiscreteInputs |-> 2,
   ReadHoldingRegisters |-> 3, ReadInputRegisters |-> 4, WriteSingleCoil |-> 5,
   WriteSingleRegister |-> 6, ReadExceptionStatus |-> 7, Diagnostics |-> 8,
   GetCommEventCounter |-> 11, GetCommEventLog |-> 12,
   WriteMultipleCoils |-> 15, WriteMultipleRegisters |-> 16,
   ReportServerID |-> 17, ReadFileRecord |-> 20, WriteFileRecord |-> 21,
   MaskWriteRegister |-> 22, ReadWriteMultipleRegisters |-> 23,
   ReadFIFOQueue |-> 24, EncapsulatedInterfaceTransport |-> 43]

\* variant as u8
functions_as_u8(variant) == functions_PublicModbusFunction[variant]

\* is_public_function without the early return for code 0
functions_PublicModbusFunction_is_public_function_with_zero(code) ==
  \E v \in DOMAIN functions_PublicModbusFunction :
    functions_PublicModbusFunction[v] = code

\* PublicModbusFunction::is_public_function: false for 0, true for the
\* discriminants the macro lists
functions_PublicModbusFunction_is_public_function(code) ==
  IF code = 0 THEN FALSE
  ELSE \E v \in DOMAIN functions_PublicModbusFunction :
         functions_PublicModbusFunction[v] = code

\* PublicModbusFunction::new_unchecked: the variant with that discriminant
\* (the caller guarantees there is one)
functions_PublicModbusFunction_new_unchecked(code) ==
  CHOOSE v \in DOMAIN functions_PublicModbusFunction :
    functions_PublicModbusFunction[v] = code

functions_PublicModbusFunction_new(code) ==
  IF functions_PublicModbusFunction_is_public_function(code)
    THEN functions_PublicModbusFunction_new_unchecked(code)
    ELSE "Invalid"

\* ModbusFunction is a newtype over the byte
functions_ModbusFunction_new(function_code) == function_code

functions_ModbusFunction_is_public(self) ==
  functions_PublicModbusFunction_is_public_function(self)

----------------------------------------------------------------------------
(* Function codes of the enum classifier (function.rs)                     *)

function_PublicModbusFunction ==
  [Invalid |-> 0, ReadCoils |-> 1, ReadDiscreteInputs |-> 2,
   ReadHoldingRegisters |-> 3, ReadInputRegisters |-> 4, WriteSingleCoil |-> 5,
   WriteSingleRegister |-> 6, ReadExceptionStatus |-> 7, Diagnostics |-> 8,
   Program484 |-> 9, Poll484 |-> 10, GetCommEventCounter |-> 11,
   GetCommEventLog |-> 12, ProgramController |-> 13, PollController |-> 14,
   WriteMultipleCoils |-> 15, WriteMultipleregisters |-> 16,
   ReportServerID |-> 17, Program884M84 |-> 18, ResetCommLink |-> 19,
   ReadFileRecord |-> 20, WriteFileRecord |-> 21, MaskWriteRegister |-> 22,
   ReadWriteMultipleRegisters |-> 23, ReadFIFOQueue |-> 24,
   EncapsulatedInterfaceTransport |-> 43]

function_as_u8(variant) == function_PublicModbusFunction[variant]

function_PublicModbusFunction_is_public_function(code) ==
  (0 <= code /\ code <= 24) \/ code = 43

function_PublicModbusFunction_new_unchecked(code) ==
  CHOOSE v \in DOMAIN function_PublicModbusFunction :
    function_PublicModbusFunction[v] = code

\* is_custom_function with the first range starting one code early
function_CustomModbusFunction_is_custom_function_early(code) ==
  (64 <= code /\ code <= 72) \/ (100 <= code /\ code <= 110)

function_CustomModbusFunction_is_custom_function(code) ==
  (65 <= code /\ code <= 72) \/ (100 <= code /\ code <= 110)

function_OtherModbusFunction_is_other_function(code) ==
  /\ ~function_PublicModbusFunction_is_public_function(code)
  /\ ~function_CustomModbusFunction_is_custom_function(code)

\* From<u8> for ModbusFunction
function_ModbusFunction_from(fcode) ==
  IF function_CustomModbusFunction_is_custom_function(fcode)
    THEN [variant |-> "Custom", value |-> fcode]
  ELSE IF function_PublicModbusFunction_is_public_function(fcode)
    THEN [variant |-> "Public",
          value |-> function_PublicModbusFunction_new_unchecked(fcode)]
  ELSE [variant |-> "Other", value |-> fcode]

----------------------------------------------------------------------------
(* Write multiple registers (write/multiple_registers.rs)                  *)

WriteMultipleRegisters_FUNCTION_CODE == 16

WriteMultipleRegisters_new_unchecked(addr, registers) ==
  [addr |-> addr, registers |-> registers]

\* new with the limit of 123 registers applied one register early
WriteMultipleRegisters_new_early(addr, registers) ==
  LET n == RegisterSlice_len(registers)
  IN  IF n = 0 THEN Invalid
      ELSE IF n >= MaxRegisters THEN TooLarge
      ELSE IF overflowing_add(addr, n % U16)[2] THEN Overflow
      ELSE Ok(WriteMultipleRegisters_new_unchecked(addr, registers))

WriteMultipleRegisters_new(addr, registers) ==
  LET n == RegisterSlice_len(registers)
  IN  IF n = 0 THEN Invalid
      ELSE IF n > MaxRegisters THEN TooLarge
      ELSE IF overflowing_add(addr, n % U16)[2] THEN Overflow
      ELSE Ok(WriteMultipleRegisters_new_unchecked(addr, registers))

\* from_data_unchecked that slices the declared payload before it compares
\* the two length fields
WriteMultipleRegisters_from_data_unchecked_slice_first(d) ==
  LET r1 == read_u16_unchecked(d)
      addr == r1[1]
      r2 == read_u16_unchecked(r1[2])
      quantity == r2[1]
      rest == r2[2]
      nbytes == rest[1]
      payload == slice_get(rest, 1, nbytes + 1)
  IN  IF ~payload.some
        THEN UnexpectedEOF(nbytes + HEADER_SIZE - 1,
                           HEADER_SIZE - 1 + Len(rest) - 1)
      ELSE IF nbytes \div 2 # quantity THEN Ambivalent
      ELSE LET registers == RegisterSlice_new(payload.value)
           IN  IF registers.kind # "Ok" THEN registers
               ELSE WriteMultipleRegisters_new(addr, registers.value)

\* from_data_unchecked that reports only the bytes after the byteCount field
\* as got
WriteMultipleRegisters_from_data_unchecked_tail_got(d) ==
  LET r1 == read_u16_unchecked(d)
      addr == r1[1]
      r2 == read_u16_unchecked(r1[2])
      quantity == r2[1]
      rest == r2[2]
      nbytes == rest[1]
      payload == slice_get(rest, 1, nbytes + 1)
  IN  IF nbytes \div 2 # quantity THEN Ambivalent
      ELSE IF payload.some
        THEN LET registers == RegisterSlice_new(payload.value)
             IN  IF registers.kind # "Ok" THEN registers
                 ELSE WriteMultipleRegisters_new(addr, registers.value)
        ELSE UnexpectedEOF(nbytes + HEADER_SIZE - 1, Len(rest) - 1)

WriteMultipleRegisters_from_data_unchecked(d) ==
  LET r1 == read_u16_unchecked(d)
      addr == r1[1]
      r2 == read_u16_unchecked(r1[2])
      quantity == r2[1]
      rest == r2[2]
      nbytes == rest[1]
      payload == slice_get(rest, 1, nbytes + 1)
  IN  IF nbytes \div 2 # quantity THEN Ambivalent
      ELSE IF payload.some
        THEN LET registers == RegisterSlice_new(payload.value)
             IN  IF registers.kind # "Ok" THEN registers
                 ELSE WriteMultipleRegisters_new(addr, registers.value)
        ELSE UnexpectedEOF(nbytes + HEADER_SIZE - 1,
                           HEADER_SIZE - 1 + Len(rest) - 1)

\* from_data that only requires the five header bytes
WriteMultipleRegisters_from_data_header_only(d) ==
  IF Len(d) < HEADER_SIZE - 1
    THEN UnexpectedEOF(MIN_INPUT_SIZE, Len(d))
    ELSE WriteMultipleRegisters_from_data_unchecked(d)

WriteMultipleRegisters_from_data(d) ==
  IF Len(d) < MIN_INPUT_SIZE
    THEN UnexpectedEOF(MIN_INPUT_SIZE, Len(d))
    ELSE WriteMultipleRegisters_from_data_unchecked(d)

WriteMultipleRegisters_data_size(r) ==
  RegisterSlice_bytes_len(r.registers) + HEADER_SIZE

\* write_to_slice_unchecked that stores the quantity low byte first
WriteMultipleRegisters_write_to_slice_unchecked_le(r, o) ==
  LET addr_bytes == to_be_bytes(r.addr)
      quantity == RegisterSlice_len(r.registers) % U16
      quantity_bytes == to_be_bytes(quantity)
      nbytes == RegisterSlice_bytes_len(r.registers) % U8
      bytes == RegisterSlice_bytes(r.registers)
  IN  [i \in 1..Len(o) |->
         IF i = 1 THEN WriteMultipleRegisters_FUNCTION_CODE
         ELSE IF i = 2 THEN addr_bytes[1]
         ELSE IF i = 3 THEN addr_bytes[2]
         ELSE IF i = 4 THEN quantity_bytes[2]
         ELSE IF i = 5 THEN quantity_bytes[1]
         ELSE IF i = 6 THEN nbytes
         ELSE IF i <= nbytes + 6 THEN bytes[i - HEADER_SIZE]
         ELSE o[i]]

\* write_to_slice_unchecked that clears the buffer behind the encoding
WriteMultipleRegisters_write_to_slice_unchecked_clear(r, o) ==
  LET addr_bytes == to_be_bytes(r.addr)
      quantity == RegisterSlice_len(r.registers) % U16
      quantity_bytes == to_be_bytes(quantity)
      nbytes == RegisterSlice_bytes_len(r.registers) % U8
      bytes == RegisterSlice_bytes(r.registers)
  IN  [i \in 1..Len(o) |->
         IF i = 1 THEN WriteMultipleRegisters_FUNCTION_CODE
         ELSE IF i = 2 THEN addr_bytes[1]
         ELSE IF i = 3 THEN addr_bytes[2]
         ELSE IF i = 4 THEN quantity_bytes[1]
         ELSE IF i = 5 THEN quantity_bytes[2]
         ELSE IF i = 6 THEN nbytes
         ELSE IF i <= nbytes + 6 THEN bytes[i - HEADER_SIZE]
         ELSE 0]

\* the buffer after write_to_slice_unchecked; the caller guarantees
\* Len(o) >= data_size and a register view of at most 255 bytes
WriteMultipleRegisters_write_to_slice_unchecked(r, o) ==
  LET addr_bytes == to_be_bytes(r.addr)
      quantity == RegisterSlice_len(r.registers) % U16
      quantity_bytes == to_be_bytes(quantity)
      nbytes == RegisterSlice_bytes_len(r.registers) % U8
      bytes == RegisterSlice_bytes(r.registers)
  IN  [i \in 1..Len(o) |->
         IF i = 1 THEN WriteMultipleRegisters_FUNCTION_CODE
         ELSE IF i = 2 THEN addr_bytes[1]
         ELSE IF i = 3 THEN addr_bytes[2]
         ELSE IF i = 4 THEN quantity_bytes[1]
         ELSE IF i = 5 THEN quantity_bytes[2]
         ELSE IF i = 6 THEN nbytes
         ELSE IF i <= nbytes + 6 THEN bytes[i - HEADER_SIZE]
         ELSE o[i]]

\* write_to_slice that stores the function code before it checks the size
WriteMultipleRegisters_write_to_slice_code_first(r, o) ==
  LET data_size == WriteMultipleRegisters_data_size(r)
  IN  IF Len(o) < data_size
        THEN [result |-> InsufficientBuffer(data_size, Len(o)),
              out |-> [i \in 1..Len(o) |->
                         IF i = 1 THEN WriteMultipleRegisters_FUNCTION_CODE
                         ELSE o[i]]]
        ELSE [result |-> OkUnit,
              out |-> WriteMultipleRegisters_write_to_slice_unchecked(r, o)]

\* write_to_slice: the result and the buffer afterwards
WriteMultipleRegisters_write_to_slice(r, o) ==
  LET data_size == WriteMultipleRegisters_data_size(r)
  IN  IF Len(o) < data_size
        THEN [result |-> InsufficientBuffer(data_size, Len(o)), out |-> o]
        ELSE [result |-> OkUnit,
              out |-> WriteMultipleRegisters_write_to_slice_unchecked(r, o)]

----------------------------------------------------------------------------
(* Fixed-size requests (requests/read.rs, requests/write/single.rs)        *)

ReadRequests ==
  {"ReadCoils", "ReadDiscreteInputs", "ReadHoldingRegisters", "ReadInputRegisters"}

ReadRequest_new(addr, quantity) == [addr |-> addr, quantity |-> quantity]

\* from_data_unchecked that hands back the whole input as the tail
ReadRequest_from_data_unchecked_no_advance(d) ==
  LET r == read_addr_quantity_unchecked(d)
  IN  <<ReadRequest_new(r[1], r[2]), d>>

ReadRequest_from_data_unchecked(d) ==
  LET r == read_addr_quantity_unchecked(d)
  IN  <<ReadRequest_new(r[1], r[2]), r[3]>>

ReadRequest_from_data(d) ==
  IF Len(d) < FixedInputSize
    THEN UnexpectedEOF(FixedInputSize, Len(d))
    ELSE LET r == ReadRequest_from_data_unchecked(d)
         IN  OkTail(r[1], r[2])

\* try_from that takes every non-zero word for On
BitState_try_from_coerce(value) ==
  IF value = 0 THEN Ok("Off") ELSE Ok("On")

\* TryFrom<u16> for BitState (bitstate.rs)
BitState_try_from(value) ==
  IF value = 0 THEN Ok("Off")
  ELSE IF value = 65280 THEN Ok("On")
  ELSE InvalidValue

\* into that yields the repr(u8) discriminant of the state
BitState_into_u16_repr(state) == IF state = "Off" THEN 0 ELSE 1

\* Into<u16> for BitState (bitstate.rs)
BitState_into_u16(state) == IF state = "Off" THEN 0 ELSE 65280

WriteSingleCoil_new(addr, state) == [addr |-> addr, state |-> state]

WriteSingleCoil_from_data_unchecked(d) ==
  LET r1 == read_u16_unchecked(d)
      r2 == read_u16_unchecked(r1[2])
      state == BitState_try_from(r2[1])
  IN  IF state.kind # "Ok" THEN state
      ELSE OkTail(WriteSingleCoil_new(r1[1], state.value), r2[2])

WriteSingleCoil_from_data(d) ==
  IF Len(d) < FixedInputSize
    THEN UnexpectedEOF(FixedInputSize, Len(d))
    ELSE WriteSingleCoil_from_data_unchecked(d)

\* read_req!::MODBUS_FUNCTION_CODE: the variant named like the request
ReadRequest_FUNCTION_CODE(t) == t

\* read_req!::into_data
ReadRequest_into_data(r) ==
  LET addr == to_be_bytes(r.addr)
      quantity == to_be_bytes(r.quantity)
  IN  <<addr[1], addr[2], quantity[1], quantity[2]>>

\* read_req!::write_to_slice_unchecked: the buffer afterwards; the caller
\* guarantees Len(o) >= 5
ReadRequest_write_to_slice_unchecked(t, r, o) ==
  <<functions_as_u8(ReadRequest_FUNCTION_CODE(t))>>
    \o write_addr_quantity_unchecked(r.addr, r.quantity, SliceFrom(o, 1))

\* write_to_slice that only asks for the four body bytes
ReadRequest_write_to_slice_body_only(t, r, o) ==
  IF Len(o) < FixedInputSize
    THEN [result |-> InsufficientBuffer(FixedOutputSize, Len(o)), out |-> o]
    ELSE [result |-> OkUnit,
          out |-> ReadRequest_write_to_slice_unchecked(t, r, o)]

\* write_to_slice that stores the body without the function code in front
ReadRequest_write_to_slice_no_code(t, r, o) ==
  IF Len(o) < FixedOutputSize
    THEN [result |-> InsufficientBuffer(FixedOutputSize, Len(o)), out |-> o]
    ELSE [result |-> OkUnit,
          out |-> write_addr_quantity_unchecked(r.addr, r.quantity, o)]

\* read_req!::write_to_slice: the result and the buffer afterwards
ReadRequest_write_to_slice(t, r, o) ==
  IF Len(o) < FixedOutputSize
    THEN [result |-> InsufficientBuffer(FixedOutputSize, Len(o)), out |-> o]
    ELSE [result |-> OkUnit,
          out |-> ReadRequest_write_to_slice_unchecked(t, r, o)]

\* into_data that stores the state word low byte first
WriteSingleCoil_into_data_le(r) ==
  LET addr_bytes == to_be_bytes(r.addr)
      state_bytes == to_be_bytes(BitState_into_u16(r.state))
  IN  <<functions_as_u8("WriteSingleCoil"), addr_bytes[1], addr_bytes[2],
        state_bytes[2], state_bytes[1]>>

\* WriteSingleCoil::into_data
WriteSingleCoil_into_data(r) ==
  LET addr_bytes == to_be_bytes(r.addr)
      state_bytes == to_be_bytes(BitState_into_u16(r.state))
  IN  <<functions_as_u8("WriteSingleCoil"), addr_bytes[1], addr_bytes[2],
        state_bytes[1], state_bytes[2]>>

\* WriteSingleCoil::write_to_slice_unchecked: out[0..5] receives into_data
WriteSingleCoil_write_to_slice_unchecked(r, o) ==
  LET bytes == WriteSingleCoil_into_data(r)
  IN  [i \in 1..Len(o) |-> IF i <= FixedOutputSize THEN bytes[i] ELSE o[i]]

\* WriteSingleCoil::write_to_slice: the result and the buffer afterwards
WriteSingleCoil_write_to_slice(r, o) ==
  IF Len(o) < FixedOutputSize
    THEN [result |-> InsufficientBuffer(FixedOutputSize, Len(o)), out |-> o]
    ELSE [result |-> OkUnit,
          out |-> WriteSingleCoil_write_to_slice_unchecked(r, o)]

----------------------------------------------------------------------------
(* Write-single requests of the earlier revision (request/write/single.rs) *)

WriteSingleCoilRequest_from_addr_state_unchecked(addr, state) ==
  [addr |-> addr, state |-> state # 0]

WriteSingleCoilRequest_from_addr_state(addr, state) ==
  IF state # 0 /\ state # 65280
    THEN None
    ELSE Some(WriteSingleCoilRequest_from_addr_state_unchecked(addr, state))

WriteSingleCoilRequest_from_modbus_data_unchecked(d) ==
  LET addr == from_be_bytes(d[1], d[2])
      state == from_be_bytes(d[3], d[4])
  IN  WriteSingleCoilRequest_from_addr_state_unchecked(addr, state)

WriteSingleCoilRequest_from_modbus_data(d) ==
  IF Len(d) >= 4
    THEN Some(WriteSingleCoilRequest_from_modbus_data_unchecked(d))
    ELSE None

WriteSingleRegisterRequest_new(addr, val) == [addr |-> addr, val |-> val]

WriteSingleRegisterRequest_from_modbus_data_unchecked(d) ==
  LET addr == from_be_bytes(d[1], d[2])
      val == from_be_bytes(d[3], d[4])
  IN  [addr |-> addr, val |-> val]

WriteSingleRegisterRequest_from_modbus_data(d) ==
  IF Len(d) >= 4
    THEN Some(WriteSingleRegisterRequest_from_modbus_data_unchecked(d))
    ELSE None

WriteSingleRegisterRequest_new_as_modbus_data(addr, val) ==
  LET addr_bytes == to_be_bytes(addr)
      val_bytes == to_be_bytes(val)
  IN  <<function_as_u8("WriteSingleCoil"), addr_bytes[1], addr_bytes[2],
        val_bytes[1], val_bytes[2]>>

WriteSingleRegisterRequest_as_modbus_data(r) ==
  WriteSingleRegisterRequest_new_as_modbus_data(r.addr, r.val)

----------------------------------------------------------------------------
(* One-byte readers (functions.rs, slaveid.rs) and slave ids               *)

\* get(lo..) that has no answer for the range at the very end of the slice
slice_get_from_strict(s, lo) ==
  IF lo < Len(s) THEN Some(SliceFrom(s, lo)) ELSE None

\* <[u8]>::get(lo..): None when lo lies behind the end of the slice
slice_get_from(s, lo) ==
  IF lo <= Len(s) THEN Some(SliceFrom(s, lo)) ELSE None

\* get_function of functions.rs: (function of byte 0, bytes 1..)
functions_get_function(d) ==
  LET byte == slice_get_index(d, 0)
  IN  <<IF byte.some THEN Some(functions_ModbusFunction_new(byte.value)) ELSE None,
        slice_get_from(d, 1)>>

\* SlaveId is a newtype over the byte
SlaveId_new(id) == id

get_slaveid(d) ==
  LET byte == slice_get_index(d, 0)
  IN  <<IF byte.some THEN Some(SlaveId_new(byte.value)) ELSE None,
        slice_get_from(d, 1)>>

\* is_reserved as its doc comment words it (id > 248)
SlaveId_is_reserved_doc(self) == self > 248

SlaveId_is_reserved(self) == self >= 248

SlaveId_is_broadcast(self) == self = 0

SlaveId_is_device(self) ==
  ~SlaveId_is_broadcast(self) /\ ~SlaveId_is_reserved(self)

SlaveId_is_default_tcp(self) == self = 255

\* must_react that tests the own id for broadcast
SlaveId_must_react_self(self, other) ==
  IF self = 0 THEN TRUE ELSE self = other

SlaveId_must_react(self, other) ==
  IF other = 0 THEN TRUE ELSE self = other

----------------------------------------------------------------------------
(* Address/quantity pair and read requests of the earlier revision          *)
(* (util/mod.rs, request/read.rs)                                           *)

\* AddrQuantity::from_modbus_data_unchecked: four get_unchecked reads and
\* get_unchecked(4..); oob tells whether one of them lies outside the slice
AddrQuantity_from_modbus_data_unchecked(d) ==
  IF Len(d) >= 4
    THEN [oob |-> FALSE,
          me |-> [addr |-> from_be_bytes(d[1], d[2]),
                  quantity |-> from_be_bytes(d[3], d[4])],
          tail |-> SliceFrom(d, 4)]
    ELSE [oob |-> TRUE]

\* AddrQuantity::from_modbus_data: (Option<AddrQuantity>, &[u8])
AddrQuantity_from_modbus_data(d, observed) ==
  IF Len(d) < 3
    THEN Value(<<None, d>>)
    ELSE LET u == AddrQuantity_from_modbus_data_unchecked(d)
         IN  IF u.oob THEN OutOfBounds(observed)
             ELSE Value(<<Some(u.me), u.tail>>)

\* read_request!::from_modbus_data_unchecked
read_request_from_modbus_data_unchecked(d) ==
  LET u == AddrQuantity_from_modbus_data_unchecked(d)
  IN  IF u.oob THEN u
      ELSE [oob |-> FALSE,
            me |-> [addr |-> u.me.addr, quantity |-> u.me.quantity],
            tail |-> u.tail]

\* read_request!::from_modbus_data: (Option<Self>, Option<&[u8]>); the
\* unchecked parser runs before the length is looked at
read_request_from_modbus_data(d, observed) ==
  LET u == read_request_from_modbus_data_unchecked(d)
  IN  IF u.oob THEN OutOfBounds(observed)
      ELSE IF Len(d) >= 4 /\ u.me.quantity > 0
        THEN Value(<<Some(u.me), slice_get_from(d, 4)>>)
      ELSE Value(<<None, Some(d)>>)

----------------------------------------------------------------------------
(* Register helpers of the earlier revision (util/registers.rs)            *)

\* u16::from_be of a register given by its two bytes in memory order
u16_from_be(reg) == from_be_bytes(reg[1], reg[2])

\* registers_from_modbus_data_raw: panics when data.len() * 2 < quantity,
\* otherwise the view from_raw_parts(data.as_ptr(), quantity), whose
\* registers are given by their two bytes in memory order; a view that is
\* longer than data is an access outside data
registers_from_modbus_data_raw(quantity, d, observed) ==
  IF Len(d) * 2 < quantity THEN Panic
  ELSE IF quantity * 2 <= Len(d)
    THEN Value([i \in 1..quantity |-> <<d[2 * i - 1], d[2 * i]>>])
  ELSE OutOfBounds(observed)

\* registers_from_modbus_data: the output registers afterwards and the result
registers_from_modbus_data(quantity, modbus_data, out_registers, observed) ==
  IF Len(out_registers) < quantity
    THEN [out |-> out_registers, result |-> Panic]
    ELSE LET regs == registers_from_modbus_data_raw(quantity, modbus_data, observed)
         IN  IF regs.kind # "Value"
               THEN [out |-> out_registers, result |-> regs]
               ELSE [out |-> [i \in 1..Len(out_registers) |->
                                IF i <= Len(regs.value)
                                  THEN u16_from_be(regs.value[i])
                                  ELSE out_registers[i]],
                     result |-> OkUnit]

\* the two stores registers_data_to_native_endian executes on one chunk,
\* one after the other
native_endian_chunk(bytes) ==
  LET first == [bytes EXCEPT ![1] = bytes[2]]
  IN  [first EXCEPT ![2] = first[1]]

\* registers_data_to_native_endian: the buffer afterwards; chunks_exact_mut(2)
\* visits the complete pairs only
registers_data_to_native_endian(registers, target_endian) ==
  [i \in 1..Len(registers) |->
     IF target_endian = "little" /\ i <= 2 * (Len(registers) \div 2)
       THEN LET c == (i + 1) \div 2
                chunk == native_endian_chunk(
                           <<registers[2 * c - 1], registers[2 * c]>>)
            IN  chunk[i - 2 * (c - 1)]
       ELSE registers[i]]

----------------------------------------------------------------------------
(* Inputs of the caller                                                    *)

\* a payload of len bytes, all different from their neighbours
Pattern(len, seed) == [i \in 1..len |-> (seed * 101 + i * 7) % U8]

\* the content of an output buffer before the encoder runs
OutPattern(len, seed) == [i \in 1..len |-> (170 + seed + i * 3) % U8]

Take(s, n) == SubSeq(s, 1, IF n < Len(s) THEN n ELSE Len(s))

Seeds == 0..MaxSeed

\* addresses around both ends of the 16-bit address space
Addrs == {0, 1, 258, 65412, 65413, 65533, 65534, 65535}

\* quantity fields and register counts around the limits 0, 123 and 255/2
Quantities == {0, 1, 2, 3, 122, 123, 124, 127, 257}
NewCounts == {0, 1, 2, 3, 122, 123, 124, 127}

\* byte-count fields, even and odd, around the same limits
ByteCounts == {0, 1, 2, 3, 4, 5, 6, 244, 245, 246, 247, 248, 254, 255}

Header(a, q, nb) == to_be_bytes(a) \o to_be_bytes(q) \o <<nb>>

\* lengths of the inputs cut from a frame that declares nb payload bytes:
\* every length below the minimum, and the lengths around the full frame
FrameLens(nb) ==
  (0..MIN_INPUT_SIZE) \cup
  {l \in (HEADER_SIZE - 1 + nb - 2)..(HEADER_SIZE - 1 + nb + MaxExtra) : l >= 0}

Frames ==
  UNION {{Take(Header(a, q, nb) \o Pattern(nb + MaxExtra, s), l) : l \in FrameLens(nb)} :
           <<a, q, nb, s>> \in Addrs \X Quantities \X ByteCounts \X Seeds}

\* second fields of the fixed-size layouts
Words == {0, 1, 255, 258, 65280, 65535}

FixedInputs ==
  UNION {{Take(to_be_bytes(a) \o to_be_bytes(w) \o Pattern(MaxExtra, s), l) :
            l \in 0..(FixedInputSize + MaxExtra)} :
           <<a, w, s>> \in Addrs \X Words \X Seeds}

\* the read requests that are chained into one input
ChainRequests ==
  {ReadRequest_new(0, 0), ReadRequest_new(258, 1),
   ReadRequest_new(65535, 65280), ReadRequest_new(1, 65535)}

Chains == UNION {[1..k -> ChainRequests] : k \in 1..MaxChain}

\* the bytes that follow the last encoded request (shorter than a request)
ChainTails == {Pattern(l, s) : l \in 0..MaxExtra, s \in Seeds}

RECURSIVE ConcatIntoData(_)
\* the encoded bodies of a sequence of read requests, one after the other
ConcatIntoData(rs) ==
  IF rs = <<>> THEN <<>>
  ELSE ReadRequest_into_data(Head(rs)) \o ConcatIntoData(Tail(rs))

BitStates == {"Off", "On"}

\* every byte
Bytes == 0..(U8 - 1)

\* state words: every word with a zero low byte, a zero high byte or the
\* high byte 0xFF
StateWords ==
  {h * U8 : h \in Bytes} \cup Bytes \cup {65280 + l : l \in Bytes}

\* state words offered to the write-single-coil parsers inside an input
CoilWords == Words \cup {256, 61695, 65281}

CoilInputs ==
  UNION {{Take(to_be_bytes(a) \o to_be_bytes(w) \o Pattern(MaxExtra, s), l) :
            l \in 0..(FixedInputSize + MaxExtra)} :
           <<a, w, s>> \in Addrs \X CoilWords \X Seeds}

\* buffers handed to the one-byte readers: empty, or any first byte followed
\* by up to MaxExtra bytes
ByteBufs ==
  {<<>>} \cup
  {<<b>> \o Pattern(k, s) : <<b, k, s>> \in Bytes \X (0..MaxExtra) \X Seeds}

\* the byte buffers offered to RegisterSlice::new
ViewBufs ==
  {Pattern(l, s) : <<l, s>> \in (0..(2 * MaxExtra + 1)) \X Seeds}

\* register indices: the first ones and the ones around the two places where
\* (idx + 1) * 2 leaves the usize range
Indices ==
  0..(MaxExtra + 1) \cup
  {(USIZE \div 2) + k : k \in (-2)..(MaxExtra + 1)} \cup
  {USIZE - 2, USIZE - 1}

\* what an access outside a buffer can yield: a fault of the process, or
\* the access goes through and meets whatever lies there
Fault == -1
Observations == {Fault, 0, 258, 65535}

\* output buffers offered to write_addr_quantity
QuantityBufs ==
  {OutPattern(l, s) : <<l, s>> \in (0..(FixedInputSize + MaxExtra)) \X Seeds}

\* the bytes that follow an encoded write-single-coil body
CoilTails ==
  {Pattern(l, s) : <<l, s>> \in (0..(FixedInputSize + MaxExtra)) \X Seeds}

\* the read requests of the earlier revision
LegacyReadRequests ==
  {"ReadCoilsRequest", "ReadDiscreteInputsRequest",
   "ReadHoldingRegistersRequest", "ReadInputRegistersRequest"}

\* register counts asked of the register helpers
RegisterQuantities == 0..(2 * MaxExtra + 2)

\* output registers offered to registers_from_modbus_data
RegisterOuts == {[i \in 1..l |-> 43690 + i] : l \in 0..(MaxExtra + 1)}

TargetEndians == {"little", "big"}

\* lengths of the output buffers offered to an encoder that needs size bytes
OutLens(size) ==
  {0, 1, HEADER_SIZE - 1, HEADER_SIZE} \cup
  {l \in (size - 2)..(size + MaxExtra) : l >= 0}

----------------------------------------------------------------------------
(* The caller                                                              *)

Held(r) == IF r.kind = "Ok" THEN Some(r.value) ELSE None

Init ==
  /\ pc = "idle"
  /\ ty = "none"
  /\ data = <<>>
  /\ addrArg = 0
  /\ regsArg = <<>>
  /\ req = None
  /\ origin = "none"
  /\ out0 = <<>>
  /\ out = <<>>
  /\ res = [kind |-> "none"]
  /\ arg = 0
  /\ chainIn = <<>>
  /\ chainOut = <<>>

\* RegisterSlice::new(bytes).unwrap() followed by WriteMultipleRegisters::new
New(a, n, s) ==
  /\ pc = "idle"
  /\ LET bytes == Pattern(2 * n, s)
         registers == RegisterSlice_new(bytes)
         r == WriteMultipleRegisters_new(a, registers.value)
     IN  /\ registers.kind = "Ok"
         /\ regsArg' = bytes
         /\ res' = r
         /\ req' = Held(r)
  /\ pc' = "new"
  /\ ty' = "WriteMultipleRegisters"
  /\ addrArg' = a
  /\ origin' = "new"
  /\ UNCHANGED <<data, out0, out, arg, chainIn, chainOut>>

\* WriteMultipleRegisters::from_data(d)
FromData(d) ==
  /\ pc = "idle"
  /\ LET r == WriteMultipleRegisters_from_data(d)
     IN  /\ res' = r
         /\ req' = Held(r)
  /\ pc' = "from_data"
  /\ ty' = "WriteMultipleRegisters"
  /\ data' = d
  /\ origin' = "from_data"
  /\ UNCHANGED <<addrArg, regsArg, out0, out, arg, chainIn, chainOut>>

\* from_data of one of the four read requests
ReadFromData(t, d) ==
  /\ pc = "idle"
  /\ LET r == ReadRequest_from_data(d)
     IN  /\ res' = r
         /\ req' = Held(r)
  /\ pc' = "from_data"
  /\ ty' = t
  /\ data' = d
  /\ origin' = "from_data"
  /\ UNCHANGED <<addrArg, regsArg, out0, out, arg, chainIn, chainOut>>

\* WriteSingleCoil::from_data(d)
WriteSingleCoilFromData(d) ==
  /\ pc = "idle"
  /\ LET r == WriteSingleCoil_from_data(d)
     IN  /\ res' = r
         /\ req' = Held(r)
  /\ pc' = "from_data"
  /\ ty' = "WriteSingleCoil"
  /\ data' = d
  /\ origin' = "from_data"
  /\ UNCHANGED <<addrArg, regsArg, out0, out, arg, chainIn, chainOut>>

\* write_to_slice of the write-multiple-registers request the caller holds,
\* into a buffer the caller picks
WriteToSlice ==
  /\ pc \in {"new", "from_data"}
  /\ ty = "WriteMultipleRegisters"
  /\ req.some
  /\ \E s \in Seeds :
       \E len \in OutLens(WriteMultipleRegisters_data_size(req.value)) :
         LET o == OutPattern(len, s)
             w == WriteMultipleRegisters_write_to_slice(req.value, o)
         IN  /\ out0' = o
             /\ out' = w.out
             /\ res' = w.result
  /\ pc' = "write_to_slice"
  /\ UNCHANGED <<ty, data, addrArg, regsArg, req, origin, arg, chainIn, chainOut>>

\* from_data of the encoded bytes after the function-code byte
ParseEncoded ==
  /\ pc = "write_to_slice"
  /\ res.kind = "Ok"
  /\ data' = SliceFrom(out, 1)
  /\ res' = WriteMultipleRegisters_from_data(SliceFrom(out, 1))
  /\ pc' = "parse_encoded"
  /\ UNCHANGED <<ty, addrArg, regsArg, req, origin, out0, out, arg, chainIn, chainOut>>

\* new of one of the four read requests
ReadNew(t, a, q) ==
  /\ pc = "idle"
  /\ pc' = "fixed_new"
  /\ ty' = t
  /\ req' = Some(ReadRequest_new(a, q))
  /\ origin' = "new"
  /\ UNCHANGED <<data, addrArg, regsArg, out0, out, res, arg, chainIn, chainOut>>

\* WriteSingleCoil::new
WriteSingleCoilNew(a, state) ==
  /\ pc = "idle"
  /\ pc' = "fixed_new"
  /\ ty' = "WriteSingleCoil"
  /\ req' = Some(WriteSingleCoil_new(a, state))
  /\ origin' = "new"
  /\ UNCHANGED <<data, addrArg, regsArg, out0, out, res, arg, chainIn, chainOut>>

\* write_to_slice of the fixed-size request the caller built, into a buffer
\* the caller picks
FixedWriteToSlice ==
  /\ pc = "fixed_new"
  /\ ty \in ReadRequests \cup {"WriteSingleCoil"}
  /\ \E s \in Seeds :
       \E len \in OutLens(FixedOutputSize) :
         LET o == OutPattern(len, s)
             w == IF ty = "WriteSingleCoil"
                    THEN WriteSingleCoil_write_to_slice(req.value, o)
                    ELSE ReadRequest_write_to_slice(ty, req.value, o)
         IN  /\ out0' = o
             /\ out' = w.out
             /\ res' = w.result
  /\ pc' = "fixed_write_to_slice"
  /\ UNCHANGED <<ty, data, addrArg, regsArg, req, origin, arg, chainIn, chainOut>>

\* the caller encodes a sequence of read requests with into_data, one after
\* the other, and appends tl
ReadChainStart(t, rs, tl) ==
  /\ pc = "idle"
  /\ pc' = "chain"
  /\ ty' = t
  /\ chainIn' = rs
  /\ chainOut' = <<>>
  /\ arg' = tl
  /\ data' = ConcatIntoData(rs) \o tl
  /\ UNCHANGED <<addrArg, regsArg, req, origin, out0, out, res>>

\* from_data on what is left of the chained input
ReadChainStep ==
  /\ pc = "chain"
  /\ Len(chainOut) < Len(chainIn)
  /\ LET r == ReadRequest_from_data(data)
     IN  /\ res' = r
         /\ IF r.kind = "Ok"
              THEN /\ chainOut' = Append(chainOut, r.value)
                   /\ data' = r.tail
                   /\ pc' = "chain"
              ELSE /\ pc' = "chain_failed"
                   /\ UNCHANGED <<chainOut, data>>
  /\ UNCHANGED <<ty, addrArg, regsArg, req, origin, out0, out, arg, chainIn>>

\* BitState::try_from(w)
BitStateTryFrom(w) ==
  /\ pc = "idle"
  /\ pc' = "bitstate_try_from"
  /\ ty' = "BitState"
  /\ arg' = w
  /\ res' = BitState_try_from(w)
  /\ UNCHANGED <<data, addrArg, regsArg, req, origin, out0, out, chainIn, chainOut>>

\* Into<u16>::into(state)
BitStateInto(state) ==
  /\ pc = "idle"
  /\ pc' = "bitstate_into"
  /\ ty' = "BitState"
  /\ arg' = state
  /\ res' = Value(BitState_into_u16(state))
  /\ UNCHANGED <<data, addrArg, regsArg, req, origin, out0, out, chainIn, chainOut>>

\* WriteSingleCoilRequest::from_modbus_data(d)
WriteSingleCoilRequestFromModbusData(d) ==
  /\ pc = "idle"
  /\ pc' = "from_modbus_data"
  /\ ty' = "WriteSingleCoilRequest"
  /\ data' = d
  /\ res' = Value(WriteSingleCoilRequest_from_modbus_data(d))
  /\ UNCHANGED <<addrArg, regsArg, req, origin, out0, out, arg, chainIn, chainOut>>

\* WriteSingleRegisterRequest::new(a, v).as_modbus_data()
WriteSingleRegisterRequestAsModbusData(a, v) ==
  /\ pc = "idle"
  /\ pc' = "as_modbus_data"
  /\ ty' = "WriteSingleRegisterRequest"
  /\ req' = Some(WriteSingleRegisterRequest_new(a, v))
  /\ origin' = "new"
  /\ out' = WriteSingleRegisterRequest_as_modbus_data(WriteSingleRegisterRequest_new(a, v))
  /\ UNCHANGED <<data, addrArg, regsArg, out0, res, arg, chainIn, chainOut>>

\* WriteSingleRegisterRequest::from_modbus_data on bytes 1..5 of the encoding
WriteSingleRegisterRequestFromModbusData ==
  /\ pc = "as_modbus_data"
  /\ ty = "WriteSingleRegisterRequest"
  /\ pc' = "from_modbus_data"
  /\ data' = Slice(out, 1, 5)
  /\ res' = Value(WriteSingleRegisterRequest_from_modbus_data(Slice(out, 1, 5)))
  /\ UNCHANGED <<ty, addrArg, regsArg, req, origin, out0, out, arg, chainIn, chainOut>>

\* ModbusFunction::from(b) of function.rs, with the three predicates
ClassifyByte(b) ==
  /\ pc = "idle"
  /\ pc' = "classify"
  /\ ty' = "function::ModbusFunction"
  /\ arg' = b
  /\ res' = Value([function |-> function_ModbusFunction_from(b),
                   is_public_function |->
                     function_PublicModbusFunction_is_public_function(b),
                   is_custom_function |->
                     function_CustomModbusFunction_is_custom_function(b),
                   is_other_function |->
                     function_OtherModbusFunction_is_other_function(b)])
  /\ UNCHANGED <<data, addrArg, regsArg, req, origin, out0, out, chainIn, chainOut>>

\* ModbusFunction::new(b).is_public(), PublicModbusFunction::is_public_function(b)
\* and PublicModbusFunction::new(b) of functions.rs
NewtypeClassify(b) ==
  /\ pc = "idle"
  /\ pc' = "newtype_classify"
  /\ ty' = "functions::ModbusFunction"
  /\ arg' = b
  /\ res' = Value([is_public |->
                     functions_ModbusFunction_is_public(functions_ModbusFunction_new(b)),
                   is_public_function |->
                     functions_PublicModbusFunction_is_public_function(b),
                   public |-> functions_PublicModbusFunction_new(b)])
  /\ UNCHANGED <<data, addrArg, regsArg, req, origin, out0, out, chainIn, chainOut>>

\* get_function(d) of functions.rs
GetFunction(d) ==
  /\ pc = "idle"
  /\ pc' = "get_function"
  /\ ty' = "functions::ModbusFunction"
  /\ data' = d
  /\ res' = Value(functions_get_function(d))
  /\ UNCHANGED <<addrArg, regsArg, req, origin, out0, out, arg, chainIn, chainOut>>

\* get_slaveid(d)
GetSlaveId(d) ==
  /\ pc = "idle"
  /\ pc' = "get_slaveid"
  /\ ty' = "SlaveId"
  /\ data' = d
  /\ res' = Value(get_slaveid(d))
  /\ UNCHANGED <<addrArg, regsArg, req, origin, out0, out, arg, chainIn, chainOut>>

\* the four class predicates of SlaveId::new(id)
SlaveIdClasses(id) ==
  /\ pc = "idle"
  /\ pc' = "slaveid_classes"
  /\ ty' = "SlaveId"
  /\ arg' = id
  /\ res' = Value([is_broadcast |-> SlaveId_is_broadcast(SlaveId_new(id)),
                   is_device |-> SlaveId_is_device(SlaveId_new(id)),
                   is_reserved |-> SlaveId_is_reserved(SlaveId_new(id)),
                   is_default_tcp |-> SlaveId_is_default_tcp(SlaveId_new(id))])
  /\ UNCHANGED <<data, addrArg, regsArg, req, origin, out0, out, chainIn, chainOut>>

\* SlaveId::new(self).must_react(SlaveId::new(other))
MustReact(self, other) ==
  /\ pc = "idle"
  /\ pc' = "must_react"
  /\ ty' = "SlaveId"
  /\ arg' = <<self, other>>
  /\ res' = Value(SlaveId_must_react(SlaveId_new(self), SlaveId_new(other)))
  /\ UNCHANGED <<data, addrArg, regsArg, req, origin, out0, out, chainIn, chainOut>>

\* RegisterSlice::new(bytes)
RegisterSliceNew(bytes) ==
  /\ pc = "idle"
  /\ pc' = "register_new"
  /\ ty' = "RegisterSlice"
  /\ data' = bytes
  /\ res' = RegisterSlice_new(bytes)
  /\ req' = Held(RegisterSlice_new(bytes))
  /\ UNCHANGED <<addrArg, regsArg, origin, out0, out, arg, chainIn, chainOut>>

\* view.get(idx) on the view just built, in a build with or without
\* overflow checks
RegisterSliceGet ==
  /\ pc = "register_new"
  /\ req.some
  /\ \E idx \in Indices, overflow_checks \in BOOLEAN, observed \in Observations :
       /\ arg' = <<idx, overflow_checks>>
       /\ res' = RegisterSlice_get(req.value, idx, overflow_checks, observed)
  /\ pc' = "register_get"
  /\ UNCHANGED <<ty, data, addrArg, regsArg, req, origin, out0, out, chainIn, chainOut>>

\* util::read_u16(d)
ReadU16(d) ==
  /\ pc = "idle"
  /\ pc' = "read_u16"
  /\ ty' = "util"
  /\ data' = d
  /\ res' = read_u16(d)
  /\ UNCHANGED <<addrArg, regsArg, req, origin, out0, out, arg, chainIn, chainOut>>

\* util::read_addr_quantity(d)
ReadAddrQuantity(d) ==
  /\ pc = "idle"
  /\ pc' = "read_addr_quantity"
  /\ ty' = "util"
  /\ data' = d
  /\ res' = read_addr_quantity(d)
  /\ UNCHANGED <<addrArg, regsArg, req, origin, out0, out, arg, chainIn, chainOut>>

\* util::write_addr_quantity(a, q, o) into a buffer the caller picks
WriteAddrQuantity(a, q, o) ==
  /\ pc = "idle"
  /\ pc' = "write_addr_quantity"
  /\ ty' = "util"
  /\ arg' = <<a, q>>
  /\ out0' = o
  /\ out' = write_addr_quantity(a, q, o).out
  /\ res' = write_addr_quantity(a, q, o).result
  /\ UNCHANGED <<data, addrArg, regsArg, req, origin, chainIn, chainOut>>

\* util::read_addr_quantity on the buffer write_addr_quantity filled
ReadAddrQuantityBack ==
  /\ pc = "write_addr_quantity"
  /\ res = OkUnit
  /\ pc' = "read_addr_quantity_back"
  /\ data' = out
  /\ res' = read_addr_quantity(out)
  /\ UNCHANGED <<ty, addrArg, regsArg, req, origin, out0, out, arg, chainIn, chainOut>>

\* the caller encodes the write-single-coil request it built with into_data,
\* drops the function code, appends tl and parses the bytes with from_data
WriteSingleCoilRoundTrip ==
  /\ pc = "fixed_new"
  /\ ty = "WriteSingleCoil"
  /\ \E tl \in CoilTails :
       /\ arg' = tl
       /\ out' = WriteSingleCoil_into_data(req.value)
       /\ data' = Slice(WriteSingleCoil_into_data(req.value), 1, 5) \o tl
       /\ res' = WriteSingleCoil_from_data(
                   Slice(WriteSingleCoil_into_data(req.value), 1, 5) \o tl)
  /\ pc' = "coil_round_trip"
  /\ UNCHANGED <<ty, addrArg, regsArg, req, origin, out0, chainIn, chainOut>>

\* AddrQuantity::from_modbus_data(d)
AddrQuantityFromModbusData(d) ==
  /\ pc = "idle"
  /\ pc' = "from_modbus_data"
  /\ ty' = "AddrQuantity"
  /\ data' = d
  /\ \E observed \in Observations :
       res' = AddrQuantity_from_modbus_data(d, observed)
  /\ UNCHANGED <<addrArg, regsArg, req, origin, out0, out, arg, chainIn, chainOut>>

\* from_modbus_data(d) of one of the four read requests of request/read.rs
LegacyReadFromModbusData(t, d) ==
  /\ pc = "idle"
  /\ pc' = "from_modbus_data"
  /\ ty' = t
  /\ data' = d
  /\ \E observed \in Observations :
       res' = read_request_from_modbus_data(d, observed)
  /\ UNCHANGED <<addrArg, regsArg, req, origin, out0, out, arg, chainIn, chainOut>>

\* registers_from_modbus_data_raw(q, d)
RegistersRaw(q, d) ==
  /\ pc = "idle"
  /\ pc' = "registers_raw"
  /\ ty' = "util::registers"
  /\ arg' = q
  /\ data' = d
  /\ \E observed \in Observations :
       res' = registers_from_modbus_data_raw(q, d, observed)
  /\ UNCHANGED <<addrArg, regsArg, req, origin, out0, out, chainIn, chainOut>>

\* registers_from_modbus_data(q, d, o)
RegistersFromModbusData(q, d, o) ==
  /\ pc = "idle"
  /\ pc' = "registers_from_modbus_data"
  /\ ty' = "util::registers"
  /\ arg' = q
  /\ data' = d
  /\ out0' = o
  /\ \E observed \in Observations :
       /\ out' = registers_from_modbus_data(q, d, o, observed).out
       /\ res' = registers_from_modbus_data(q, d, o, observed).result
  /\ UNCHANGED <<addrArg, regsArg, req, origin, chainIn, chainOut>>

\* registers_data_to_native_endian(bytes) on a target of the given endianness
ToNativeEndian(bytes, target_endian) ==
  /\ pc = "idle"
  /\ pc' = "to_native_endian"
  /\ ty' = "util::registers"
  /\ arg' = target_endian
  /\ data' = bytes
  /\ out' = registers_data_to_native_endian(bytes, target_endian)
  /\ UNCHANGED <<addrArg, regsArg, req, origin, out0, res, chainIn, chainOut>>

\* registers_data_to_native_endian on the buffer it has already converted
ToNativeEndianAgain ==
  /\ pc = "to_native_endian"
  /\ pc' = "to_native_endian_twice"
  /\ out0' = out
  /\ out' = registers_data_to_native_endian(out, arg)
  /\ UNCHANGED <<ty, data, addrArg, regsArg, req, origin, res, arg, chainIn, chainOut>>

Next ==
  \/ pc = "idle" /\ \E a \in Addrs, n \in NewCounts, s \in Seeds : New(a, n, s)
  \/ pc = "idle" /\ \E d \in Frames : FromData(d)
  \/ pc = "idle" /\ \E t \in ReadRequests, d \in FixedInputs : ReadFromData(t, d)
  \/ pc = "idle" /\ \E d \in CoilInputs : WriteSingleCoilFromData(d)
  \/ WriteToSlice
  \/ ParseEncoded
  \/ pc = "idle" /\ \E t \in ReadRequests, a \in Addrs, q \in Words : ReadNew(t, a, q)
  \/ pc = "idle" /\ \E a \in Addrs, state \in BitStates : WriteSingleCoilNew(a, state)
  \/ FixedWriteToSlice
  \/ WriteSingleCoilRoundTrip
  \/ pc = "idle" /\ \E t \in ReadRequests, rs \in Chains, tl \in ChainTails : ReadChainStart(t, rs, tl)
  \/ ReadChainStep
  \/ pc = "idle" /\ \E w \in StateWords : BitStateTryFrom(w)
  \/ pc = "idle" /\ \E state \in BitStates : BitStateInto(state)
  \/ pc = "idle" /\ \E d \in CoilInputs : WriteSingleCoilRequestFromModbusData(d)
  \/ pc = "idle" /\ \E a \in Addrs, v \in Words : WriteSingleRegisterRequestAsModbusData(a, v)
  \/ WriteSingleRegisterRequestFromModbusData
  \/ pc = "idle" /\ \E b \in Bytes : ClassifyByte(b)
  \/ pc = "idle" /\ \E b \in Bytes : NewtypeClassify(b)

Spec == Init /\ [][Next]_vars

\* the calls of the helper functions: one-byte readers, slave ids, register
\* views, big-endian primitives and the helpers of the earlier revision
UtilNext ==
  \/ pc = "idle" /\ \E d \in ByteBufs : GetFunction(d)
  \/ pc = "idle" /\ \E d \in ByteBufs : GetSlaveId(d)
  \/ pc = "idle" /\ \E id \in Bytes : SlaveIdClasses(id)
  \/ pc = "idle" /\ \E self \in Bytes, other \in Bytes : MustReact(self, other)
  \/ pc = "idle" /\ \E bytes \in ViewBufs : RegisterSliceNew(bytes)
  \/ RegisterSliceGet
  \/ pc = "idle" /\ \E d \in FixedInputs : ReadU16(d)
  \/ pc = "idle" /\ \E d \in FixedInputs : ReadAddrQuantity(d)
  \/ pc = "idle" /\ \E a \in Addrs, q \in Words, o \in QuantityBufs : WriteAddrQuantity(a, q, o)
  \/ ReadAddrQuantityBack
  \/ pc = "idle" /\ \E d \in FixedInputs : AddrQuantityFromModbusData(d)
  \/ pc = "idle" /\ \E t \in LegacyReadRequests, d \in FixedInputs : LegacyReadFromModbusData(t, d)
  \/ pc = "idle" /\ \E q \in RegisterQuantities, d \in ViewBufs : RegistersRaw(q, d)
  \/ pc = "idle" /\ \E q \in RegisterQuantities, d \in ViewBufs, o \in RegisterOuts : RegistersFromModbusData(q, d, o)
  \/ pc = "idle" /\ \E bytes \in ViewBufs, target_endian \in TargetEndians : ToNativeEndian(bytes, target_endian)
  \/ ToNativeEndianAgain

UtilSpec == Init /\ [][UtilNext]_vars

TypeOK ==
  /\ pc \in {"idle", "new", "from_data", "write_to_slice", "parse_encoded",
            "fixed_new", "fixed_write_to_slice", "chain", "chain_failed",
            "bitstate_try_from", "bitstate_into", "from_modbus_data",
            "as_modbus_data", "classify", "newtype_classify",
            "get_function", "get_slaveid", "slaveid_classes", "must_react",
            "coil_round_trip",
            "register_new", "register_get", "read_u16", "read_addr_quantity",
            "write_addr_quantity", "read_addr_quantity_back",
            "registers_raw", "registers_from_modbus_data",
            "to_native_endian", "to_native_endian_twice"}
  /\ res.kind \in {"none", "Ok", "Value", "Panic", "OutOfBounds", "UnexpectedEOF", "InsufficientBuffer", "Invalid",
                   "InvalidValue", "TooLarge", "Ambivalent", "Overflow"}

----------------------------------------------------------------------------
(* Fields of a write-multiple-registers frame, read off the input bytes    *)

FrameAddr(d) == d[1] * 256 + d[2]
FrameQuantity(d) == d[3] * 256 + d[4]
FrameByteCount(d) == d[5]

\* the words of a register payload, in order
WordsOf(bytes) ==
  [i \in 1..(Len(bytes) \div 2) |-> bytes[2 * i - 1] * 256 + bytes[2 * i]]

IsWmrParse == pc = "from_data" /\ ty = "WriteMultipleRegisters"

\* the frame is long enough to be looked at and its two length fields agree
\* under the integer division the parser uses
LengthsAgree == Len(data) >= 7 /\ FrameByteCount(data) \div 2 = FrameQuantity(data)

\* the declared payload is present
PayloadPresent == Len(data) >= 5 + FrameByteCount(data)

\* the classification of a register count n at address a
Classify(a, n) ==
  IF n = 0 THEN "Invalid"
  ELSE IF n > 123 THEN "TooLarge"
  ELSE IF a + n > 65535 THEN "Overflow"
  ELSE "Ok"

----------------------------------------------------------------------------
(* C1 .. C10: write multiple registers                                     *)

\* C1: round trip.  For every addr and register view of n registers with
\* 1 <= n <= 123 and addr + n <= 0xFFFF, new succeeds, write_to_slice into a
\* buffer of data_size() bytes succeeds, and from_data of the encoded bytes
\* after the function-code byte succeeds and yields the same addr and the
\* same register words in the same order.
C1_RoundTrip ==
  LET n == Len(regsArg) \div 2
      valid == 1 <= n /\ n <= 123 /\ addrArg + n <= 65535
  IN  /\ (pc = "new" /\ valid) => res.kind = "Ok"
      /\ (pc = "write_to_slice" /\ origin = "new" /\ valid
            /\ Len(out0) = Len(regsArg) + 6) => res.kind = "Ok"
      /\ (pc = "parse_encoded" /\ origin = "new" /\ valid
            /\ Len(out0) = Len(regsArg) + 6)
           => /\ res.kind = "Ok"
              /\ res.value.addr = addrArg
              /\ res.value.registers.bytes = regsArg
              /\ WordsOf(res.value.registers.bytes) = WordsOf(regsArg)

\* C1 witness: a request of 123 registers was built, encoded into a buffer
\* of exactly 252 bytes and parsed back.
C1_Witness ==
  /\ pc = "parse_encoded"
  /\ origin = "new"
  /\ Len(regsArg) = 246
  /\ Len(out0) = 252
  /\ res.kind = "Ok"

\* C2 as stated: a request with quantity == 123 and addr == 0xFFFF-122 is
\* accepted by new and by from_data of a consistent, complete frame.
C2_Original ==
  /\ (pc = "new" /\ addrArg = 65535 - 122 /\ Len(regsArg) = 246)
       => res.kind = "Ok"
  /\ (IsWmrParse /\ LengthsAgree /\ PayloadPresent
        /\ FrameAddr(data) = 65535 - 122 /\ FrameQuantity(data) = 123
        /\ FrameByteCount(data) = 246)
       => res.kind = "Ok"

\* C2 amended: a request with quantity == 123 is accepted by new and by
\* from_data of a consistent, complete frame when addr == 0xFFFF-123, and is
\* rejected with Overflow by both when addr == 0xFFFF-122.
C2_Amended ==
  /\ (pc = "new" /\ Len(regsArg) = 246)
       => /\ addrArg = 65535 - 123 => res.kind = "Ok"
          /\ addrArg = 65535 - 122 => res = Overflow
  /\ (IsWmrParse /\ LengthsAgree /\ PayloadPresent
        /\ FrameQuantity(data) = 123 /\ FrameByteCount(data) = 246)
       => /\ FrameAddr(data) = 65535 - 123 => res.kind = "Ok"
          /\ FrameAddr(data) = 65535 - 122 => res = Overflow

\* C2 witness: new was called with 123 registers at addr 0xFFFF-123 and
\* accepted them.
C2_Witness ==
  /\ pc = "new"
  /\ addrArg = 65535 - 123
  /\ Len(regsArg) = 246
  /\ res.kind = "Ok"
  /\ req.some

\* C3 as stated: new returns Invalid if n == 0, TooLarge if n > 123,
\* Overflow if 1 <= n <= 123 and addr + n > 0xFFFF, and Ok otherwise; and
\* from_data applies the same classification to the quantity of every frame
\* of at least 7 bytes with byteCount/2 == quantity and its full payload.
C3_Original ==
  /\ pc = "new" => res.kind = Classify(addrArg, Len(regsArg) \div 2)
  /\ (IsWmrParse /\ LengthsAgree /\ PayloadPresent)
       => res.kind = Classify(FrameAddr(data), FrameQuantity(data))

\* C3 amended: new classifies as stated; from_data applies the same
\* classification to the quantity of every frame of at least 7 bytes with
\* byteCount == 2 * quantity and its full payload, and returns Invalid for
\* every such frame whose byteCount is odd (byteCount/2 == quantity).
C3_Amended ==
  /\ pc = "new" => res.kind = Classify(addrArg, Len(regsArg) \div 2)
  /\ (IsWmrParse /\ LengthsAgree /\ PayloadPresent)
       => IF FrameByteCount(data) % 2 = 0
            THEN res.kind = Classify(FrameAddr(data), FrameQuantity(data))
            ELSE res = Invalid

\* C3 witness: from_data classified a complete frame of 124 registers at the
\* last address as TooLarge, although addr + n overflows as well.
C3_Witness ==
  /\ IsWmrParse /\ LengthsAgree /\ PayloadPresent
  /\ FrameByteCount(data) = 248
  /\ FrameAddr(data) = 65535
  /\ res = TooLarge

\* C4: every input of at least 7 bytes whose byteCount / 2 differs from the
\* quantity field yields Ambivalent, for byteCount smaller or larger than
\* quantity * 2 and whether or not the declared payload is present.
C4_Ambivalent ==
  (IsWmrParse /\ Len(data) >= 7
     /\ FrameByteCount(data) \div 2 # FrameQuantity(data))
    => res = Ambivalent

\* C4 witness: byteCount is larger than quantity * 2 and the declared
\* payload is missing from the input.
C4_Witness ==
  /\ IsWmrParse /\ Len(data) >= 7
  /\ FrameByteCount(data) > 2 * FrameQuantity(data) + 1
  /\ Len(data) < 5 + FrameByteCount(data)
  /\ res = Ambivalent

MinimumOf(t) == IF t = "WriteMultipleRegisters" THEN 7 ELSE 4

\* C6: every checked parser rejects an input shorter than the fixed minimum
\* of its layout (4 for the read requests and write single coil, 7 for write
\* multiple registers) with UnexpectedEOF{minimum, input length}, whatever
\* the bytes are.
C6_ShortInput ==
  (pc = "from_data" /\ Len(data) < MinimumOf(ty))
    => res = UnexpectedEOF(MinimumOf(ty), Len(data))

\* C6 witness: the 5-byte write-multiple-registers frame with quantity 0 and
\* byteCount 0 was rejected with UnexpectedEOF{7, 5}.
C6_Witness ==
  /\ IsWmrParse
  /\ Len(data) = 5
  /\ FrameQuantity(data) = 0
  /\ FrameByteCount(data) = 0
  /\ res = UnexpectedEOF(7, 5)

\* C7: whenever from_data succeeds, 1 <= quantity <= 123, byteCount ==
\* quantity * 2, addr + quantity <= 0xFFFF, addr is the big-endian value of
\* d[0..2] and the register view is exactly d[5 .. 5 + byteCount].
C7_ParsedInvariant ==
  (IsWmrParse /\ res.kind = "Ok")
    => /\ Len(data) >= 7
       /\ 1 <= FrameQuantity(data)
       /\ FrameQuantity(data) <= 123
       /\ FrameByteCount(data) = FrameQuantity(data) * 2
       /\ FrameAddr(data) + FrameQuantity(data) <= 65535
       /\ res.value.addr = FrameAddr(data)
       /\ Len(data) >= 5 + FrameByteCount(data)
       /\ res.value.registers.bytes = SubSeq(data, 6, 5 + FrameByteCount(data))

\* C7 witness: a frame followed by further bytes was parsed successfully.
C7_Witness ==
  /\ IsWmrParse
  /\ res.kind = "Ok"
  /\ Len(data) > 5 + FrameByteCount(data)
  /\ FrameQuantity(data) = 3

\* C8: for every input d on which from_data succeeds, write_to_slice into a
\* buffer of at least data_size() = 6 + byteCount bytes succeeds, writes the
\* function code 16 followed by d[0 .. 5 + byteCount], and leaves every
\* buffer byte at index >= data_size() unchanged.
C8_Reencode ==
  (pc = "write_to_slice" /\ origin = "from_data"
     /\ Len(out0) >= 6 + FrameByteCount(data))
    => /\ res = OkUnit
       /\ Len(out) = Len(out0)
       /\ SubSeq(out, 1, 6 + FrameByteCount(data))
            = <<16>> \o SubSeq(data, 1, 5 + FrameByteCount(data))
       /\ \A i \in (6 + FrameByteCount(data) + 1)..Len(out0) : out[i] = out0[i]

\* C8 witness: a parsed frame was written into a buffer longer than
\* data_size().
C8_Witness ==
  /\ pc = "write_to_slice"
  /\ origin = "from_data"
  /\ Len(out0) > 6 + FrameByteCount(data)
  /\ res = OkUnit

\* C9: write_to_slice into a destination shorter than data_size() = 6 +
\* payload byte length returns InsufficientBuffer{6 + payload byte length,
\* destination length} and leaves every byte of the destination unchanged.
C9_InsufficientBuffer ==
  (pc = "write_to_slice" /\ Len(out0) < 6 + Len(req.value.registers.bytes))
    => /\ res = InsufficientBuffer(6 + Len(req.value.registers.bytes), Len(out0))
       /\ out = out0

\* C9 witness: the destination holds the header but not the whole payload.
C9_Witness ==
  /\ pc = "write_to_slice"
  /\ Len(out0) >= 6
  /\ Len(out0) < 6 + Len(req.value.registers.bytes)
  /\ res.kind = "InsufficientBuffer"

\* C10: on success from_data of write multiple registers hands back,
\* together with the request, the input bytes that follow the 5 + byteCount
\* bytes it consumed.
C10_TailReturned ==
  (IsWmrParse /\ res.kind = "Ok")
    => /\ "tail" \in DOMAIN res
       /\ res.tail = SubSeq(data, 5 + FrameByteCount(data) + 1, Len(data))

----------------------------------------------------------------------------
(* C11 .. C20: fixed-size requests, two-state value, function codes        *)

IsReadParse == pc = "from_data" /\ ty \in ReadRequests

\* C11: from_data of a read request rejects an input of at least 4 bytes
\* whose quantity field is zero as invalid, and never returns a request with
\* quantity == 0.
C11_ZeroQuantityRejected ==
  /\ (IsReadParse /\ Len(data) >= 4 /\ FrameQuantity(data) = 0) => res = Invalid
  /\ (IsReadParse /\ res.kind = "Ok") => res.value.quantity # 0

\* the requests of a chain that are not parsed yet
ChainRest == SubSeq(chainIn, Len(chainOut) + 1, Len(chainIn))

\* C12: for each read request type, from_data of into_data(new(addr,
\* quantity)) followed by any bytes t returns the same addr and quantity and
\* the tail t; calling from_data again and again on the returned tail of a
\* concatenation of k encoded bodies yields the k requests in order, and the
\* last tail is what followed the k-th body (empty when nothing followed).
C12_ReadRoundTrip ==
  /\ pc # "chain_failed"
  /\ pc = "chain"
       => /\ chainOut = SubSeq(chainIn, 1, Len(chainOut))
          /\ Len(data) = 4 * Len(ChainRest) + Len(arg)
          /\ SubSeq(data, 4 * Len(ChainRest) + 1, Len(data)) = arg
          /\ \A i \in 1..Len(ChainRest) :
               /\ data[4 * i - 3] * 256 + data[4 * i - 2] = ChainRest[i].addr
               /\ data[4 * i - 1] * 256 + data[4 * i] = ChainRest[i].quantity
          /\ Len(chainOut) >= 1
               => res = [kind |-> "Ok", value |-> chainIn[Len(chainOut)], tail |-> data]

\* C12 witness: two encoded bodies with nothing behind them were parsed one
\* after the other, and the last tail is empty.
C12_Witness ==
  /\ pc = "chain"
  /\ Len(chainIn) = 2
  /\ chainOut = chainIn
  /\ chainIn[1] # chainIn[2]
  /\ data = <<>>
  /\ res.kind = "Ok"

\* the function code and the second field the fixed-size encoders must write
ExpectedCode(t) ==
  IF t = "ReadCoils" THEN 1
  ELSE IF t = "ReadDiscreteInputs" THEN 2
  ELSE IF t = "ReadHoldingRegisters" THEN 3
  ELSE IF t = "ReadInputRegisters" THEN 4
  ELSE 5

ExpectedField(t, r) ==
  IF t = "WriteSingleCoil"
    THEN (IF r.state = "On" THEN 65280 ELSE 0)
    ELSE r.quantity

\* C13: write_to_slice of the four read requests and of WriteSingleCoil
\* returns InsufficientBuffer{5, len} and leaves the buffer unchanged when
\* len < 5; otherwise it returns Ok, sets out[0..5] to [function code, addr
\* hi, addr lo, field hi, field lo] with function code 1, 2, 3, 4 or 5, and
\* leaves every byte out[5..] unchanged.
C13_FixedWrite ==
  pc = "fixed_write_to_slice"
    => IF Len(out0) < 5
         THEN /\ res = InsufficientBuffer(5, Len(out0))
              /\ out = out0
         ELSE /\ res = OkUnit
              /\ Len(out) = Len(out0)
              /\ SubSeq(out, 1, 5) =
                   <<ExpectedCode(ty),
                     req.value.addr \div 256, req.value.addr % 256,
                     ExpectedField(ty, req.value) \div 256,
                     ExpectedField(ty, req.value) % 256>>
              /\ \A i \in 6..Len(out0) : out[i] = out0[i]

\* C13 witness: a read-input-registers request was written into a buffer
\* longer than 5 bytes.
C13_Witness ==
  /\ pc = "fixed_write_to_slice"
  /\ ty = "ReadInputRegisters"
  /\ req.value.addr = 258
  /\ Len(out0) > 5
  /\ res = OkUnit

\* C14: whenever the checked operation succeeds its unchecked twin gives the
\* same result: from_data and from_data_unchecked of the read requests (same
\* request, same tail), write_to_slice and write_to_slice_unchecked of the
\* read requests (same buffer), WriteMultipleRegisters::new and new_unchecked
\* (equal requests).
C14_CheckedEqUnchecked ==
  /\ (IsReadParse /\ res.kind = "Ok")
       => <<res.value, res.tail>> = ReadRequest_from_data_unchecked(data)
  /\ (pc = "fixed_write_to_slice" /\ ty \in ReadRequests /\ res.kind = "Ok")
       => out = ReadRequest_write_to_slice_unchecked(ty, req.value, out0)
  /\ (pc = "new" /\ res.kind = "Ok")
       => res.value = WriteMultipleRegisters_new_unchecked(addrArg, [bytes |-> regsArg])

\* C14 witness: write_to_slice of a read request succeeded on a buffer of
\* more than 5 bytes.
C14_Witness ==
  /\ pc = "fixed_write_to_slice"
  /\ ty = "ReadCoils"
  /\ Len(out0) > 5
  /\ res.kind = "Ok"

IsCoilParse == pc = "from_data" /\ ty = "WriteSingleCoil"

\* C15: on an input of at least 4 bytes WriteSingleCoil::from_data returns
\* (addr, Off) with the tail d[4..] when the state word is 0x0000, (addr, On)
\* with that tail when it is 0xFF00, and InvalidValue with no request for
\* every other state word.
C15_CoilFromData ==
  (IsCoilParse /\ Len(data) >= FixedInputSize) =>
    LET tail == SubSeq(data, FixedInputSize + 1, Len(data))
    IN  IF FrameQuantity(data) = 0
          THEN res = OkTail([addr |-> FrameAddr(data), state |-> "Off"], tail)
        ELSE IF FrameQuantity(data) = 65280
          THEN res = OkTail([addr |-> FrameAddr(data), state |-> "On"], tail)
        ELSE res = InvalidValue

\* both accepted state words and a rejected one that a boolean test would
\* take for On (0x0001, 0xFF01) are parsed
C15_Witness ==
  /\ IsCoilParse
  /\ Len(data) > FixedInputSize
  /\ FrameQuantity(data) = 65281
  /\ res = InvalidValue

IsLegacyCoilParse == pc = "from_modbus_data" /\ ty = "WriteSingleCoilRequest"

\* C16: WriteSingleCoilRequest::from_modbus_data never turns a state word
\* other than 0x0000 and 0xFF00 into a request: on an input of at least 4
\* bytes its answer is the one from_addr_state gives for the same address and
\* state word.
C16_LegacyCoilStrict ==
  (IsLegacyCoilParse /\ Len(data) >= FixedInputSize) =>
    /\ res.value.some => FrameQuantity(data) \in {0, 65280}
    /\ res.value = WriteSingleCoilRequest_from_addr_state(FrameAddr(data),
                                                          FrameQuantity(data))

IsLegacyRegister == ty = "WriteSingleRegisterRequest"

\* C17: WriteSingleRegisterRequest::as_modbus_data returns
\* [6, addr hi, addr lo, val hi, val lo], and from_modbus_data on bytes 1..5
\* of that array returns a request with the same address and value.
C17_LegacyRegisterEncoding ==
  /\ (IsLegacyRegister /\ pc \in {"as_modbus_data", "from_modbus_data"}) =>
       out = <<6>> \o to_be_bytes(req.value.addr) \o to_be_bytes(req.value.val)
  /\ (IsLegacyRegister /\ pc = "from_modbus_data") =>
       res.value = Some(req.value)

\* C18: BitState::try_from accepts exactly 0x0000 (Off) and 0xFF00 (On) and
\* answers InvalidValue for every other word; into yields 0x0000 for Off and
\* 0xFF00 for On; each accepted word converts back to itself and each state
\* converts back to itself.
C18_BitStateInverse ==
  /\ pc = "bitstate_try_from" =>
       /\ res = (IF arg = 0 THEN Ok("Off")
                 ELSE IF arg = 65280 THEN Ok("On")
                 ELSE InvalidValue)
       /\ res.kind = "Ok" => BitState_into_u16(res.value) = arg
  /\ pc = "bitstate_into" =>
       /\ res.value = (IF arg = "Off" THEN 0 ELSE 65280)
       /\ BitState_try_from(res.value) = Ok(arg)

C18_Witness ==
  /\ pc = "bitstate_into"
  /\ arg = "On"
  /\ res.value = 65280

\* the codes of the two custom ranges and of the public set
CustomCodes == 65..72 \cup 100..110
PublicCodes == 0..24 \cup {43}

\* C19: the classifier of function.rs maps a byte to Custom exactly when it
\* lies in 65..72 or 100..110, to Public exactly when it lies in 0..24 or is
\* 43, and to Other otherwise; the three predicates are exhaustive and
\* mutually exclusive and agree with the variant; byte 0 is Public(Invalid).
C19_Classifier ==
  pc = "classify" =>
    LET f == res.value.function
        p == res.value.is_public_function
        c == res.value.is_custom_function
        o == res.value.is_other_function
    IN  /\ f.variant = (IF arg \in CustomCodes THEN "Custom"
                        ELSE IF arg \in PublicCodes THEN "Public"
                        ELSE "Other")
        /\ c <=> f.variant = "Custom"
        /\ p <=> f.variant = "Public"
        /\ o <=> f.variant = "Other"
        /\ (p \/ c \/ o) /\ ~(p /\ c) /\ ~(p /\ o) /\ ~(c /\ o)
        /\ f.variant = "Public" => function_as_u8(f.value) = arg
        /\ f.variant # "Public" => f.value = arg
        /\ arg = 0 => f = [variant |-> "Public", value |-> "Invalid"]

\* a code next to a custom range falls through to Other
C19_Witness ==
  /\ pc = "classify"
  /\ arg = 64
  /\ res.value.function = [variant |-> "Other", value |-> 64]
  /\ res.value.is_other_function

\* the codes functions.rs names, Invalid aside
NamedCodes == 1..8 \cup {11, 12, 15, 16, 17} \cup 20..24 \cup {43}

----------------------------------------------------------------------------
(* C21 .. C30: helper functions                                            *)

IsByteRead == pc \in {"get_function", "get_slaveid"}

\* C21: get_function and get_slaveid return (None, None) on an empty buffer;
\* on a buffer of n >= 1 bytes they return the value of byte 0 and the tail
\* bytes 1..n, which is Some of the empty slice when n = 1; they never fail
\* on a non-empty buffer, whatever the byte.
C21_OneByteRead ==
  IsByteRead =>
    IF data = <<>>
      THEN res = Value(<<None, None>>)
      ELSE res = Value(<<Some(data[1]), Some(SubSeq(data, 2, Len(data)))>>)

\* a reader is called on a single byte and answers an empty tail
C21_Witness ==
  /\ pc = "get_slaveid"
  /\ data = <<255>>
  /\ res = Value(<<Some(255), Some(<<>>)>>)

C23_MustReact ==
  pc = "must_react" =>
    (res.value <=> (arg[2] = 0 \/ arg[2] = arg[1]))

\* a device is asked about broadcast, and the broadcast id about a device
C23_Witness ==
  /\ pc = "must_react"
  /\ arg = <<0, 17>>
  /\ res.value = FALSE

\* the library never panics and never executes an access outside a buffer
Safe == res.kind \notin {"Panic", "OutOfBounds"}

\* C24: RegisterSlice::new(bytes) returns Invalid iff the byte length is odd
\* and otherwise a view with len() = byte length / 2 and bytes() = the input;
\* get(i) returns Some(256 * bytes[2i] + bytes[2i+1]) for every i < len() and
\* None for every i >= len().
C24_RegisterView ==
  /\ pc = "register_new" =>
       IF Len(data) % 2 = 1
         THEN res = Invalid
         ELSE /\ res.kind = "Ok"
              /\ RegisterSlice_len(res.value) = Len(data) \div 2
              /\ RegisterSlice_bytes(res.value) = data
  /\ pc = "register_get" =>
       IF arg[1] < Len(data) \div 2
         THEN res = Value(Some(256 * data[2 * arg[1] + 1] + data[2 * arg[1] + 2]))
         ELSE res = Value(None)

\* C25: RegisterSlice::get never panics and never reads outside the buffer,
\* for every index of the usize range; where idx + 1 or (idx + 1) * 2 exceeds
\* the machine word it returns None, with overflow checks and with wrapping
\* arithmetic.
C25_GetTotal ==
  pc = "register_get" =>
    /\ Safe
    /\ (arg[1] + 1) * 2 >= USIZE => res = Value(None)

\* C26: read_u16(d) returns (256 * d[0] + d[1], d[2..]) when len(d) >= 2 and
\* UnexpectedEOF{2, len(d)} otherwise; read_addr_quantity(d) returns
\* (addr, quantity, d[4..]) when len(d) >= 4 and UnexpectedEOF{4, len(d)}
\* otherwise; write_addr_quantity returns InsufficientBuffer{4, len(out)}
\* with out unchanged when len(out) < 4 and otherwise writes the 4 big-endian
\* bytes to out[0..4], leaves out[4..] unchanged, and read_addr_quantity of
\* the result gives back (addr, quantity).
C26_Primitives ==
  /\ pc = "read_u16" =>
       IF Len(data) >= 2
         THEN res = OkTail(256 * data[1] + data[2], SubSeq(data, 3, Len(data)))
         ELSE res = UnexpectedEOF(2, Len(data))
  /\ pc = "read_addr_quantity" =>
       IF Len(data) >= 4
         THEN res = OkTail(<<FrameAddr(data), FrameQuantity(data)>>,
                           SubSeq(data, 5, Len(data)))
         ELSE res = UnexpectedEOF(4, Len(data))
  /\ pc = "write_addr_quantity" =>
       IF Len(out0) < 4
         THEN res = InsufficientBuffer(4, Len(out0)) /\ out = out0
         ELSE /\ res = OkUnit
              /\ Len(out) = Len(out0)
              /\ SubSeq(out, 1, 4) = <<arg[1] \div 256, arg[1] % 256,
                                       arg[2] \div 256, arg[2] % 256>>
              /\ \A i \in 5..Len(out0) : out[i] = out0[i]
  /\ pc = "read_addr_quantity_back" =>
       /\ res.kind = "Ok"
       /\ res.value = arg
       /\ res.tail = SubSeq(out0, 5, Len(out0))

\* three bytes are too few for read_addr_quantity although the first word is
\* complete
C26_Witness ==
  /\ pc = "read_addr_quantity"
  /\ Len(data) = 3
  /\ res = UnexpectedEOF(4, 3)

\* C27: for every addr, both states and every byte sequence t,
\* into_data(r) = [5, addr hi, addr lo, 0xFF or 0x00, 0x00] and
\* from_data(into_data(r)[1..5] ++ t) returns Ok((r, t)); into_data never
\* emits a state word outside {0x0000, 0xFF00}.
C27_CoilRoundTrip ==
  pc = "coil_round_trip" =>
    /\ out = <<5, req.value.addr \div 256, req.value.addr % 256,
               IF req.value.state = "On" THEN 255 ELSE 0, 0>>
    /\ out[4] * 256 + out[5] \in {0, 65280}
    /\ data = SubSeq(out, 2, 5) \o arg
    /\ res = OkTail(req.value, arg)

\* an On request is parsed back in front of a tail that is itself as long as
\* a request
C27_Witness ==
  /\ pc = "coil_round_trip"
  /\ req.value.state = "On"
  /\ Len(arg) >= FixedInputSize
  /\ res = OkTail(req.value, arg)

IsLegacyParse ==
  pc = "from_modbus_data" /\ ty \in LegacyReadRequests \cup {"AddrQuantity"}

\* C28: on every input shorter than 4 bytes AddrQuantity::from_modbus_data
\* and the from_modbus_data functions of the legacy read requests return None
\* with the whole input as tail, and execute no unchecked read of bytes 0..3
\* and no unchecked slicing at 4.. on that input.
C28_LegacyBounds ==
  (IsLegacyParse /\ Len(data) < 4) =>
    /\ Safe
    /\ res = Value(<<None, IF ty = "AddrQuantity" THEN data ELSE Some(data)>>)

\* C29: registers_from_modbus_data_raw(quantity, data) either panics or
\* returns a view of exactly quantity registers whose quantity * 2 bytes all
\* lie inside data; registers_from_modbus_data never reads input bytes beyond
\* data.len() and writes exactly out_registers[0..quantity].
C29_RegistersInBounds ==
  /\ pc = "registers_raw" =>
       \/ res = Panic
       \/ /\ res.kind = "Value"
          /\ Len(res.value) = arg
          /\ arg * 2 <= Len(data)
  /\ pc = "registers_from_modbus_data" =>
       \/ res = Panic /\ out = out0
       \/ /\ res = OkUnit
          /\ arg * 2 <= Len(data)
          /\ Len(out) = Len(out0)
          /\ \A i \in 1..Len(out0) :
               out[i] = IF i <= arg
                          THEN 256 * data[2 * i - 1] + data[2 * i]
                          ELSE out0[i]

\* C30: on a little-endian target registers_data_to_native_endian swaps the
\* two bytes of every complete 2-byte register in place, leaves a trailing
\* odd byte unchanged, and applied twice restores the original buffer; on a
\* big-endian target it leaves the buffer unchanged.
C30_NativeEndian ==
  /\ pc = "to_native_endian" =>
       /\ Len(out) = Len(data)
       /\ \A i \in 1..Len(data) :
            out[i] = IF arg = "big" \/ i > 2 * (Len(data) \div 2) THEN data[i]
                     ELSE IF i % 2 = 1 THEN data[i + 1]
                     ELSE data[i - 1]
  /\ pc = "to_native_endian_twice" => out = data

============================================================================
